---- MODULE Spec2Model ----
(***************************************************************************)
(* Model of lib/parser.js of readme-generator-for-helm: the comment-tag    *)
(* scanner parseMetadataComments, which reads a values file line by line,  *)
(* tracks the YAML key path by indentation and turns @param, @skip,        *)
(* @extra, @section and @description tags into Parameters and Sections.    *)
(*                                                                         *)
(* A JavaScript string is a sequence of one-character strings, so that     *)
(* the regular expressions of the scanner are modelled by what they match. *)
(***************************************************************************)
EXTENDS Integers, Sequences, FiniteSets, TLC

\* Longest file (in lines) that Init enumerates over the Vocabulary.
MaxLines == 4

(***************************************************************************)
(* String literals.                                                        *)
(***************************************************************************)
CommentFormat ==
    <<"#", "#">>
TagParam ==
    <<"@", "p", "a", "r", "a", "m">>
TagSection ==
    <<"@", "s", "e", "c", "t", "i", "o", "n">>
TagDescriptionStart ==
    <<"@", "d", "e", "s", "c", "r", "i", "p", "t", "i", "o", "n", "S", "t", "a", "r", "t">>
TagDescriptionEnd ==
    <<"@", "d", "e", "s", "c", "r", "i", "p", "t", "i", "o", "n", "E", "n", "d">>
TagSkip ==
    <<"@", "s", "k", "i", "p">>
TagExtra ==
    <<"@", "e", "x", "t", "r", "a">>
LineKeyA ==
    <<"a", ":">>
LineKeyB ==
    <<" ", " ", "b", ":", " ", "1">>
LineKeyC ==
    <<" ", " ", " ", " ", "c", ":">>
LineKeyD ==
    <<" ", "d", ":", " ", "{", "}">>
LineKeyE ==
    <<"e", ":", " ", "1">>
LineParamExplicit ==
    <<"#", "#", " ", "@", "p", "a", "r", "a", "m", " ", "(", "a", ".", "b", ")", " ", "d">>
LineParamAuto ==
    <<"#", "#", " ", "@", "p", "a", "r", "a", "m", " ", "[", "x", ",", " ", ",", "x", "]", " ", "d">>
LineSkipAuto ==
    <<"#", "#", " ", "@", "s", "k", "i", "p", " ", "d">>
LineSkipExplicit ==
    <<"#", "#", " ", "@", "s", "k", "i", "p", " ", "(", "c", ")", " ", "d">>
LineExtraExplicit ==
    <<"#", "#", " ", "@", "e", "x", "t", "r", "a", " ", "(", "e", ")", " ", "[", "m", "]", " ", "d">>
LineExtraAuto ==
    <<"#", "#", " ", "@", "e", "x", "t", "r", "a", " ", "d">>
LineSection ==
    <<"#", "#", " ", "@", "s", "e", "c", "t", "i", "o", "n", " ", "S">>
LineDescriptionStart ==
    <<"#", "#", " ", "@", "d", "e", "s", "c", "r", "i", "p", "t", "i", "o", "n", "S", "t", "a", "r", "t", " ", "t">>
LineDescriptionStartBare ==
    <<"#", "#", " ", "@", "d", "e", "s", "c", "r", "i", "p", "t", "i", "o", "n", "S", "t", "a", "r", "t">>
LineDescriptionEnd ==
    <<"#", "#", " ", "@", "d", "e", "s", "c", "r", "i", "p", "t", "i", "o", "n", "E", "n", "d">>
LineComment ==
    <<"#", "#", " ", "n", "o", "t", "e">>
ScenarioParamReplicaCount ==
    <<"#", "#", " ", "@", "p", "a", "r", "a", "m", " ", "r", "e", "p", "l", "i", "c", "a", "C", "o", "u", "n", "t", " ", "N", "u", "m", "b", "e", "r", " ", "o", "f", " ", "r", "e", "p", "l", "i", "c", "a", "s">>
ScenarioKeyReplicaCount ==
    <<"r", "e", "p", "l", "i", "c", "a", "C", "o", "u", "n", "t", ":", " ", "3">>
ScenarioSectionCommon ==
    <<"#", "#", " ", "@", "s", "e", "c", "t", "i", "o", "n", " ", "C", "o", "m", "m", "o", "n", " ", "p", "a", "r", "a", "m", "e", "t", "e", "r", "s">>
ScenarioParamNameOverride ==
    <<"#", "#", " ", "@", "p", "a", "r", "a", "m", " ", "n", "a", "m", "e", "O", "v", "e", "r", "r", "i", "d", "e", " ", "[", "d", "e", "f", "a", "u", "l", "t", ":", " ", "\"", "\"", "]", " ", "O", "v", "e", "r", "r", "i", "d", "e", " ", "n", "a", "m", "e">>
ScenarioKeyNameOverride ==
    <<"n", "a", "m", "e", "O", "v", "e", "r", "r", "i", "d", "e", ":", " ", "\"", "\"">>
StrReplicaCount ==
    <<"r", "e", "p", "l", "i", "c", "a", "C", "o", "u", "n", "t">>
StrNumberOfReplicas ==
    <<"N", "u", "m", "b", "e", "r", " ", "o", "f", " ", "r", "e", "p", "l", "i", "c", "a", "s">>
StrReplicaCountNumberOfReplicas ==
    <<"r", "e", "p", "l", "i", "c", "a", "C", "o", "u", "n", "t", " ", "N", "u", "m", "b", "e", "r", " ", "o", "f", " ", "r", "e", "p", "l", "i", "c", "a", "s">>
StrCommonParameters ==
    <<"C", "o", "m", "m", "o", "n", " ", "p", "a", "r", "a", "m", "e", "t", "e", "r", "s">>
StrNameOverride ==
    <<"n", "a", "m", "e", "O", "v", "e", "r", "r", "i", "d", "e">>
StrDefaultModifier ==
    <<"d", "e", "f", "a", "u", "l", "t", ":", " ", "\"", "\"">>
StrNameOverrideTrailing ==
    <<"n", "a", "m", "e", "O", "v", "e", "r", "r", "i", "d", "e", " ", "[", "d", "e", "f", "a", "u", "l", "t", ":", " ", "\"", "\"", "]", " ", "O", "v", "e", "r", "r", "i", "d", "e", " ", "n", "a", "m", "e">>
StrAB ==
    <<"a", ".", "b">>

(***************************************************************************)
(* JavaScript string and regular-expression primitives.                    *)
(***************************************************************************)
Min(S) == CHOOSE x \in S : \A y \in S : x <= y
Max(S) == CHOOSE x \in S : \A y \in S : x >= y

\* the characters \s matches, among those the files hold
IsSpace(c) == c \in {" ", "\t"}

\* a greedy \s* from position i: the first position at or after i that holds
\* no white space, Len(s) + 1 when there is none
SkipSpaces(s, i) ==
    LET stops == {j \in i..Len(s) : ~IsSpace(s[j])}
    IN  IF stops = {} THEN Len(s) + 1 ELSE Min(stops)

\* the literal lit matches s at position i
MatchesAt(s, i, lit) ==
    /\ i + Len(lit) - 1 <= Len(s)
    /\ SubSeq(s, i, i + Len(lit) - 1) = lit

\* (.*)$ from position i
Rest(s, i) == SubSeq(s, i, Len(s))

\* String.prototype.trim
Trim(s) ==
    LET inked == {j \in 1..Len(s) : ~IsSpace(s[j])}
    IN  IF inked = {} THEN <<>> ELSE SubSeq(s, Min(inked), Max(inked))

\* String.prototype.split with a one-character separator
RECURSIVE Split(_, _)
Split(s, c) ==
    LET hits == {j \in 1..Len(s) : s[j] = c}
    IN  IF hits = {} THEN <<s>>
        ELSE <<SubSeq(s, 1, Min(hits) - 1)>> \o Split(Rest(s, Min(hits) + 1), c)

\* Array.prototype.join with a one-character separator
RECURSIVE Join(_, _)
Join(parts, c) ==
    IF parts = <<>> THEN <<>>
    ELSE IF Len(parts) = 1 THEN parts[1]
    ELSE parts[1] \o <<c>> \o Join(Tail(parts), c)

\* Array.prototype.filter((m) => m): the empty string is the one falsy string
RECURSIVE FilterTruthy(_)
FilterTruthy(parts) ==
    IF parts = <<>> THEN <<>>
    ELSE (IF parts[1] = <<>> THEN <<>> ELSE <<parts[1]>>) \o FilterTruthy(Tail(parts))

\* modifiers.split(',').filter((m) => m).map((m) => m.trim())
ModifierList(modifiers) ==
    LET kept == FilterTruthy(Split(modifiers, ","))
    IN  [i \in 1..Len(kept) |-> Trim(kept[i])]

\* paramMatch[2] ? paramMatch[2].split('[')[1].split(']')[0] : ''
\* (group is <<>> when the bracket group did not take part in the match)
ModifierText(group) ==
    IF group = <<>> THEN <<>> ELSE Split(Split(group, "[")[2], "]")[1]

(***************************************************************************)
(* parseYamlLine, buildCurrentPath and updatePathStack.                    *)
(***************************************************************************)
\* yamlKeyRegex: leading white space, a first character that is neither "#"
\* nor white space, the shortest text up to a ":", white space, the rest
parseYamlLine(line) ==
    LET i == SkipSpaces(line, 1)
        colons == {k \in (i + 1)..Len(line) : line[k] = ":"}
    IN  IF i > Len(line) \/ line[i] = "#" \/ colons = {}
        THEN [isYamlKey |-> FALSE]
        ELSE LET c == Min(colons)
                 value == Trim(Rest(line, c + 1))
                 trimmed == Trim(line)
                 isComment == trimmed # <<>> /\ trimmed[1] = "#"
             IN  [isYamlKey |-> ~isComment,
                  indent |-> i - 1,
                  key |-> Trim(SubSeq(line, i, c - 1)),
                  value |-> value,
                  hasValue |-> /\ value # <<>>
                               /\ value # <<"{", "}">>
                               /\ value # <<"[", "]">>]

\* buildCurrentPath
buildCurrentPath(pathStack) ==
    IF Len(pathStack) > 0 THEN Join(pathStack, ".") ELSE <<>>

\* updatePathStack popping only strictly deeper entries (> for >=)
RECURSIVE updatePathStackStrict(_, _, _, _)
updatePathStackStrict(pathStack, indentStack, currentIndent, key) ==
    IF Len(indentStack) > 0 /\ indentStack[Len(indentStack)] > currentIndent
    THEN updatePathStackStrict(SubSeq(pathStack, 1, Len(pathStack) - 1),
                               SubSeq(indentStack, 1, Len(indentStack) - 1),
                               currentIndent, key)
    ELSE [pathStack |-> Append(pathStack, key),
          indentStack |-> Append(indentStack, currentIndent)]

\* updatePathStack popping at most one entry (if for while)
updatePathStackPopOne(pathStack, indentStack, currentIndent, key) ==
    IF Len(indentStack) > 0 /\ indentStack[Len(indentStack)] >= currentIndent
    THEN [pathStack |-> Append(SubSeq(pathStack, 1, Len(pathStack) - 1), key),
          indentStack |-> Append(SubSeq(indentStack, 1, Len(indentStack) - 1),
                                 currentIndent)]
    ELSE [pathStack |-> Append(pathStack, key),
          indentStack |-> Append(indentStack, currentIndent)]

\* updatePathStack: the two arrays it mutates, as they are when it returns
RECURSIVE updatePathStack(_, _, _, _)
updatePathStack(pathStack, indentStack, currentIndent, key) ==
    IF Len(indentStack) > 0 /\ indentStack[Len(indentStack)] >= currentIndent
    THEN updatePathStack(SubSeq(pathStack, 1, Len(pathStack) - 1),
                         SubSeq(indentStack, 1, Len(indentStack) - 1),
                         currentIndent, key)
    ELSE [pathStack |-> Append(pathStack, key),
          indentStack |-> Append(indentStack, currentIndent)]

(***************************************************************************)
(* The tag patterns built from config (default tags, comment format ##).   *)
(***************************************************************************)
\* ^\s*${config.comments.format}\s*${tag}\s* : the position after the
\* match, 0 when the line does not match
TagEnd(line, tag) ==
    LET p1 == SkipSpaces(line, 1)
        p2 == SkipSpaces(line, p1 + Len(CommentFormat))
    IN  IF ~MatchesAt(line, p1, CommentFormat) THEN 0
        ELSE IF ~MatchesAt(line, p2, tag) THEN 0
        ELSE SkipSpaces(line, p2 + Len(tag))

\* (?:\(([^\s]+)\))? at position p: the greedy [^\s]+ runs to the next white
\* space and gives back to the last ")" of that run
PathGroup(line, p) ==
    LET spaces == {j \in p..Len(line) : IsSpace(line[j])}
        runEnd == IF spaces = {} THEN Len(line) ELSE Min(spaces) - 1
        closers == {k \in (p + 2)..runEnd : line[k] = ")"}
    IN  IF p <= Len(line) /\ line[p] = "(" /\ closers # {}
        THEN [matched |-> TRUE,
              path |-> SubSeq(line, p + 1, Max(closers) - 1),
              end |-> Max(closers) + 1]
        ELSE [matched |-> FALSE, path |-> <<>>, end |-> p]

\* the bracket group looked for anywhere in the rest of the line, not only
\* at position p
BracketGroupAnywhere(line, p) ==
    LET openers == {k \in p..Len(line) : line[k] = "["}
        closers == {k \in (Min(openers) + 1)..Len(line) : line[k] = "]"}
    IN  IF openers # {} /\ closers # {}
        THEN [group |-> SubSeq(line, Min(openers), Min(closers)),
              end |-> Min(closers) + 1]
        ELSE [group |-> <<>>, end |-> p]

\* (\[.*?\])? at position p: the lazy .*? stops at the first "]"
BracketGroup(line, p) ==
    LET closers == {k \in (p + 1)..Len(line) : line[k] = "]"}
    IN  IF p <= Len(line) /\ line[p] = "[" /\ closers # {}
        THEN [group |-> SubSeq(line, p, Min(closers)), end |-> Min(closers) + 1]
        ELSE [group |-> <<>>, end |-> p]

\* paramRegex and extraRegex:
\* ^\s*FORMAT\s*TAG\s*(?:\(([^\s]+)\))?\s*(\[.*?\])?\s*(.*)$
\* explicitPath is <<>> for the undefined of a group that did not match
ModifierTagMatch(line, tag) ==
    LET p == TagEnd(line, tag)
        pg == PathGroup(line, p)
        bg == BracketGroup(line, SkipSpaces(line, pg.end))
    IN  IF p = 0 THEN [matched |-> FALSE]
        ELSE [matched |-> TRUE,
              explicitPath |-> pg.path,
              modifiers |-> ModifierText(bg.group),
              description |-> Rest(line, SkipSpaces(line, bg.end))]

paramMatch(line) == ModifierTagMatch(line, TagParam)
extraMatch(line) == ModifierTagMatch(line, TagExtra)

\* skipRegex: ^\s*FORMAT\s*TAG\s*(?:\(([^\s]+)\))?\s*(.*)$
skipMatch(line) ==
    LET p == TagEnd(line, TagSkip)
        pg == PathGroup(line, p)
    IN  IF p = 0 THEN [matched |-> FALSE]
        ELSE [matched |-> TRUE,
              explicitPath |-> pg.path,
              description |-> Rest(line, SkipSpaces(line, pg.end))]

\* sectionRegex, descriptionStartRegex, descriptionEndRegex:
\* ^\s*FORMAT\s*TAG\s*(.*)
TextTagMatch(line, tag) ==
    LET p == TagEnd(line, tag)
    IN  IF p = 0 THEN [matched |-> FALSE]
        ELSE [matched |-> TRUE, text |-> Rest(line, p)]

sectionMatch(line) == TextTagMatch(line, TagSection)
descriptionStartMatch(line) == TextTagMatch(line, TagDescriptionStart)
descriptionEndMatch(line) == TextTagMatch(line, TagDescriptionEnd)

\* descriptionContentRegex: ^\s*FORMAT\s?(.*)
descriptionContentMatch(line) ==
    LET p1 == SkipSpaces(line, 1)
        p2 == p1 + Len(CommentFormat)
    IN  IF ~MatchesAt(line, p1, CommentFormat) THEN [matched |-> FALSE]
        ELSE [matched |-> TRUE,
              text |-> Rest(line, IF p2 <= Len(line) /\ IsSpace(line[p2])
                                  THEN p2 + 1 ELSE p2)]

(***************************************************************************)
(* Parameter, Section and Metadata: the data holders the scanner fills.    *)
(***************************************************************************)
\* a field that was never assigned (no string of the files is this sequence)
undefined == <<"undefined">>

\* new Parameter(name); line is a history field, the number of the tag line
\* the Parameter was created on, which the program does not keep
NewParameter(name) ==
    [name |-> name, description |-> <<>>, modifiers |-> <<>>,
     section |-> undefined, skip |-> FALSE, extra |-> FALSE,
     value |-> undefined, type |-> undefined, line |-> 0]

\* new Section(name)
NewSection(name) == [name |-> name, description |-> <<>>, parameters |-> <<>>]

(***************************************************************************)
(* parseMetadataComments: the state of one scan, and the callback of       *)
(* lines.forEach as a function of that state.  A scan state st holds       *)
(*   sections, parameters   parsedValues (the Metadata)                    *)
(*   currentSection         index into sections, 0 for null                *)
(*   descriptionParsing, pathStack, indentStack                            *)
(*   pendingParam           <<>> for null, <<p>> for a Parameter p         *)
(***************************************************************************)
VARIABLES lines, lineIndex, pc, sections, parameters, currentSection,
          descriptionParsing, pathStack, indentStack, pendingParam,
          valuesJSON, dottedFormatProperties, valueIndex, resultValues

vars == <<lines, lineIndex, pc, sections, parameters, currentSection,
          descriptionParsing, pathStack, indentStack, pendingParam,
          valuesJSON, dottedFormatProperties, valueIndex, resultValues>>

\* the state of createValuesObject, which parseMetadataComments neither
\* reads nor writes
valueVars == <<valuesJSON, dottedFormatProperties, valueIndex, resultValues>>

\* the state of parseMetadataComments but for pc
scanVars == <<lines, lineIndex, sections, parameters, currentSection,
              descriptionParsing, pathStack, indentStack, pendingParam>>

\* the Parameter attached to the first section instead of the current one
AttachParameterFirstSection(st, param) ==
    IF st.currentSection # 0
    THEN LET p == [param EXCEPT !.section = st.sections[1].name]
         IN  [st EXCEPT !.sections[1].parameters = Append(@, p),
                        !.parameters = Append(@, p)]
    ELSE [st EXCEPT !.parameters = Append(@, param)]

\* the Parameter of a section added to the section alone, not to the Metadata
AttachParameterSectionOnly(st, param) ==
    IF st.currentSection # 0
    THEN LET p == [param EXCEPT !.section = st.sections[st.currentSection].name]
         IN  [st EXCEPT !.sections[st.currentSection].parameters = Append(@, p)]
    ELSE [st EXCEPT !.parameters = Append(@, param)]

\* if (currentSection) { param.section = currentSection.name;
\*   currentSection.addParameter(param); } parsedValues.addParameter(param);
AttachParameter(st, param) ==
    IF st.currentSection # 0
    THEN LET p == [param EXCEPT !.section = st.sections[st.currentSection].name]
         IN  [st EXCEPT !.sections[st.currentSection].parameters = Append(@, p),
                        !.parameters = Append(@, p)]
    ELSE [st EXCEPT !.parameters = Append(@, param)]

\* the pending Parameter named from the stacks as they were before the
\* structural line was pushed
StepYamlStalePath(st, line) ==
    LET yamlInfo == parseYamlLine(line)
        up == updatePathStack(st.pathStack, st.indentStack,
                              yamlInfo.indent, yamlInfo.key)
        st1 == [st EXCEPT !.pathStack = up.pathStack,
                          !.indentStack = up.indentStack]
    IN  IF ~yamlInfo.isYamlKey THEN st
        ELSE IF st1.pendingParam = <<>> THEN st1
        ELSE AttachParameter(
                 [st1 EXCEPT !.pendingParam = <<>>],
                 [st1.pendingParam[1] EXCEPT !.name = buildCurrentPath(st.pathStack)])

\* the structural line: update the stacks, resolve a pending Parameter
StepYaml(st, line) ==
    LET yamlInfo == parseYamlLine(line)
        up == updatePathStack(st.pathStack, st.indentStack,
                              yamlInfo.indent, yamlInfo.key)
        st1 == [st EXCEPT !.pathStack = up.pathStack,
                          !.indentStack = up.indentStack]
    IN  IF ~yamlInfo.isYamlKey THEN st
        ELSE IF st1.pendingParam = <<>> THEN st1
        ELSE AttachParameter(
                 [st1 EXCEPT !.pendingParam = <<>>],
                 [st1.pendingParam[1] EXCEPT !.name = buildCurrentPath(st1.pathStack)])

\* the lookahead naming the Parameter from the stacks without the next key
LookAheadStaleStack(st, pending, fileLines, index) ==
    LET nextYamlInfo == parseYamlLine(fileLines[index + 2])
    IN  IF index + 1 < Len(fileLines) /\ nextYamlInfo.isYamlKey
        THEN AttachParameter(
                 [st EXCEPT !.pendingParam = <<>>],
                 [pending EXCEPT !.name = buildCurrentPath(st.pathStack)])
        ELSE [st EXCEPT !.pendingParam = <<pending>>]

\* the lookahead attaching the Parameter whatever the next line is
LookAheadAlwaysAttach(st, pending, fileLines, index) ==
    LET nextYamlInfo == parseYamlLine(fileLines[index + 2])
        temp == updatePathStack(st.pathStack, st.indentStack,
                                nextYamlInfo.indent, nextYamlInfo.key)
    IN  IF index + 1 < Len(fileLines) /\ nextYamlInfo.isYamlKey
        THEN AttachParameter(
                 [st EXCEPT !.pendingParam = <<>>],
                 [pending EXCEPT !.name = buildCurrentPath(temp.pathStack)])
        ELSE AttachParameter(
                 [st EXCEPT !.pendingParam = <<>>],
                 [pending EXCEPT !.name = buildCurrentPath(st.pathStack)])

\* the lookahead attaching the Parameter and leaving it in the pending slot
LookAheadKeepsPending(st, pending, fileLines, index) ==
    LET nextYamlInfo == parseYamlLine(fileLines[index + 2])
        temp == updatePathStack(st.pathStack, st.indentStack,
                                nextYamlInfo.indent, nextYamlInfo.key)
        named == [pending EXCEPT !.name = buildCurrentPath(temp.pathStack)]
    IN  IF index + 1 < Len(fileLines) /\ nextYamlInfo.isYamlKey
        THEN AttachParameter([st EXCEPT !.pendingParam = <<named>>], named)
        ELSE [st EXCEPT !.pendingParam = <<pending>>]

\* a tag without explicit path: the Parameter is left pending unless the
\* next line is structural, and then it is named from copies of the stacks
LookAhead(st, pending, fileLines, index) ==
    LET nextYamlInfo == parseYamlLine(fileLines[index + 2])
        temp == updatePathStack(st.pathStack, st.indentStack,
                                nextYamlInfo.indent, nextYamlInfo.key)
    IN  IF index + 1 < Len(fileLines) /\ nextYamlInfo.isYamlKey
        THEN AttachParameter(
                 [st EXCEPT !.pendingParam = <<>>],
                 [pending EXCEPT !.name = buildCurrentPath(temp.pathStack)])
        ELSE [st EXCEPT !.pendingParam = <<pending>>]

\* the param tag always auto-detecting its path, the explicit one ignored
StepParamAlwaysAuto(st, fileLines, index) ==
    LET m == paramMatch(fileLines[index + 1])
        made(path) == [NewParameter(path) EXCEPT
                          !.modifiers = ModifierList(m.modifiers),
                          !.description = m.description,
                          !.line = index + 1]
    IN  IF ~m.matched THEN st
        ELSE LookAhead(st, made(<<>>), fileLines, index)

\* Parse param line
StepParam(st, fileLines, index) ==
    LET m == paramMatch(fileLines[index + 1])
        made(path) == [NewParameter(path) EXCEPT
                          !.modifiers = ModifierList(m.modifiers),
                          !.description = m.description,
                          !.line = index + 1]
    IN  IF ~m.matched THEN st
        ELSE IF m.explicitPath # <<>> THEN AttachParameter(st, made(m.explicitPath))
        ELSE LookAhead(st, made(<<>>), fileLines, index)

\* Parse section line
StepSection(st, line) ==
    LET m == sectionMatch(line)
    IN  IF ~m.matched THEN st
        ELSE [st EXCEPT !.sections = Append(@, NewSection(m.text)),
                        !.currentSection = Len(st.sections) + 1]

\* Parse section description end line
StepDescriptionEnd(st, line) ==
    IF st.currentSection # 0 /\ st.descriptionParsing
       /\ descriptionEndMatch(line).matched
    THEN [st EXCEPT !.descriptionParsing = FALSE]
    ELSE st

\* Parse section description content line between start and end
StepDescriptionContent(st, line) ==
    LET m == descriptionContentMatch(line)
    IN  IF st.currentSection # 0 /\ st.descriptionParsing /\ m.matched
        THEN [st EXCEPT !.sections[st.currentSection].description = Append(@, m.text)]
        ELSE st

\* the start tag read without looking at the capture flag
StepDescriptionStartAlways(st, line) ==
    LET m == descriptionStartMatch(line)
    IN  IF st.currentSection # 0 /\ m.matched
        THEN IF m.text # <<>>
             THEN [st EXCEPT !.descriptionParsing = TRUE,
                             !.sections[st.currentSection].description = Append(@, m.text)]
             ELSE [st EXCEPT !.descriptionParsing = TRUE]
        ELSE st

\* Parse section description start line
StepDescriptionStart(st, line) ==
    LET m == descriptionStartMatch(line)
    IN  IF st.currentSection # 0 /\ ~st.descriptionParsing /\ m.matched
        THEN IF m.text # <<>>
             THEN [st EXCEPT !.descriptionParsing = TRUE,
                             !.sections[st.currentSection].description = Append(@, m.text)]
             ELSE [st EXCEPT !.descriptionParsing = TRUE]
        ELSE st

\* Parse skip line with auto-path detection
StepSkip(st, fileLines, index) ==
    LET m == skipMatch(fileLines[index + 1])
        made(path) == [NewParameter(path) EXCEPT
                          !.skip = TRUE,
                          !.description = m.description,
                          !.line = index + 1]
    IN  IF ~m.matched THEN st
        ELSE IF m.explicitPath # <<>> THEN AttachParameter(st, made(m.explicitPath))
        ELSE LookAhead(st, made(<<>>), fileLines, index)

\* the extra tag leaving the value of an auto-detected Parameter unset
StepExtraPendingNoValue(st, fileLines, index) ==
    LET m == extraMatch(fileLines[index + 1])
        made(path) == [NewParameter(path) EXCEPT
                          !.modifiers = ModifierList(m.modifiers),
                          !.description = m.description,
                          !.value = IF path = <<>> THEN undefined ELSE <<>>,
                          !.extra = TRUE,
                          !.line = index + 1]
    IN  IF ~m.matched THEN st
        ELSE IF m.explicitPath # <<>> THEN AttachParameter(st, made(m.explicitPath))
        ELSE LookAhead(st, made(<<>>), fileLines, index)

\* Parse extra line with auto-path detection
StepExtra(st, fileLines, index) ==
    LET m == extraMatch(fileLines[index + 1])
        made(path) == [NewParameter(path) EXCEPT
                          !.modifiers = ModifierList(m.modifiers),
                          !.description = m.description,
                          !.value = <<>>,
                          !.extra = TRUE,
                          !.line = index + 1]
    IN  IF ~m.matched THEN st
        ELSE IF m.explicitPath # <<>> THEN AttachParameter(st, made(m.explicitPath))
        ELSE LookAhead(st, made(<<>>), fileLines, index)

\* the one element of a one-element set
The(S) == CHOOSE x \in S : TRUE

\* the callback of lines.forEach on line number index (from 0): the eight
\* blocks of its body in their order, each on the state the one before left
ScanLine(st, fileLines, index) ==
    LET line == fileLines[index + 1]
    IN  The({StepExtra(s7, fileLines, index) :
          s7 \in {StepSkip(s6, fileLines, index) :
            s6 \in {StepDescriptionStart(s5, line) :
              s5 \in {StepDescriptionContent(s4, line) :
                s4 \in {StepDescriptionEnd(s3, line) :
                  s3 \in {StepSection(s2, line) :
                    s2 \in {StepParam(s1, fileLines, index) :
                      s1 \in {StepYaml(st, line)}}}}}}}})

\* the scan state held by the variables
Scan ==
    [sections |-> sections, parameters |-> parameters,
     currentSection |-> currentSection,
     descriptionParsing |-> descriptionParsing,
     pathStack |-> pathStack, indentStack |-> indentStack,
     pendingParam |-> pendingParam]

(***************************************************************************)
(* The files scanned: every file of at most MaxLines lines over the        *)
(* Vocabulary, and the two files of the documented scenarios.              *)
(***************************************************************************)
Vocabulary ==
    {LineKeyA, LineKeyB, LineParamExplicit, LineParamAuto, LineSkipExplicit,
     LineSkipAuto, LineExtraExplicit, LineExtraAuto, LineSection, LineComment}

ScenarioReplicaCount == <<ScenarioParamReplicaCount, ScenarioKeyReplicaCount>>

ScenarioNameOverride ==
    <<ScenarioSectionCommon, ScenarioParamNameOverride, ScenarioKeyNameOverride>>

Scenarios == {ScenarioReplicaCount, ScenarioNameOverride}

\* data.split(/\r?\n/) has at least one line
IsFile(f) ==
    \/ \E n \in 1..MaxLines : f \in [1..n -> Vocabulary]
    \/ f \in Scenarios

\* the locals of parseMetadataComments before the loop
Start ==
    /\ lineIndex = 0
    /\ pc = "scan"
    /\ sections = <<>>
    /\ parameters = <<>>
    /\ currentSection = 0
    /\ descriptionParsing = FALSE
    /\ pathStack = <<>>
    /\ indentStack = <<>>
    /\ pendingParam = <<>>
    /\ valuesJSON = <<>>
    /\ dottedFormatProperties = <<>>
    /\ valueIndex = 0
    /\ resultValues = <<>>

Init == IsFile(lines) /\ Start

\* the files of sections and their descriptions
DescriptionVocabulary ==
    {LineSection, LineDescriptionStart, LineDescriptionStartBare,
     LineDescriptionEnd, LineComment, LineParamExplicit, LineKeyA}

InitDescription ==
    /\ \E n \in 1..MaxLines : lines \in [1..n -> DescriptionVocabulary]
    /\ Start

\* the files of the path-tracking properties: keys at the indents 0, 1, 2
\* and 4, with and without an inline value, and a tag without explicit path
PathVocabulary ==
    {LineKeyA, LineKeyB, LineKeyC, LineKeyD, LineKeyE, LineParamAuto}

InitPaths ==
    /\ \E n \in 1..MaxLines : lines \in [1..n -> PathVocabulary]
    /\ Start

\* one iteration of lines.forEach
ProcessLine ==
    /\ pc = "scan"
    /\ lineIndex < Len(lines)
    /\ \E st \in {ScanLine(Scan, lines, lineIndex)} :
           /\ sections' = st.sections
           /\ parameters' = st.parameters
           /\ currentSection' = st.currentSection
           /\ descriptionParsing' = st.descriptionParsing
           /\ pathStack' = st.pathStack
           /\ indentStack' = st.indentStack
           /\ pendingParam' = st.pendingParam
    /\ lineIndex' = lineIndex + 1
    /\ UNCHANGED <<lines, pc, valueVars>>

\* return parsedValues
Return ==
    /\ pc = "scan"
    /\ lineIndex = Len(lines)
    /\ pc' = "done"
    /\ UNCHANGED <<scanVars, valueVars>>

Next == ProcessLine \/ Return

Spec == Init /\ [][Next]_vars

SpecPaths == InitPaths /\ [][Next]_vars
SpecDescription == InitDescription /\ [][Next]_vars


(***************************************************************************)
(* createValuesObject.  A value of the parsed YAML tree is a record        *)
(*   kind     "string", "number", "null", "map", "array", or "undefined"   *)
(*            for what a failed lookup returns                             *)
(*   text     the scalar, "" otherwise                                     *)
(*   items    the elements of an array, in index order                     *)
(*   entries  the [key, value] pairs of a map, in source order             *)
(* Keys and paths are sequences of characters, as the lines of the file.   *)
(***************************************************************************)
MaxItems == 2

StringValue(t) ==
    [kind |-> "string", text |-> t, items |-> <<>>, entries |-> <<>>]
NumberValue(t) ==
    [kind |-> "number", text |-> t, items |-> <<>>, entries |-> <<>>]
null == [kind |-> "null", text |-> "", items |-> <<>>, entries |-> <<>>]
undefinedValue ==
    [kind |-> "undefined", text |-> "", items |-> <<>>, entries |-> <<>>]
ArrayValue(items) ==
    [kind |-> "array", text |-> "", items |-> items, entries |-> <<>>]
MapValue(entries) ==
    [kind |-> "map", text |-> "", items |-> <<>>, entries |-> entries]
Entry(key, value) == [key |-> key, value |-> value]

\* a step of a path: a key of a map or an index of an array
KeySegment(key) == [isIndex |-> FALSE, key |-> key, index |-> 0]
IndexSegment(n) == [isIndex |-> TRUE, key |-> <<>>, index |-> n]

\* the decimal digits, for the indices 0..9
Digits == <<"0", "1", "2", "3", "4", "5", "6", "7", "8", "9">>
DigitValue(c) == CHOOSE n \in 0..9 : Digits[n + 1] = c

\* the concatenation of a sequence of sequences
RECURSIVE Concat(_)
Concat(seqs) ==
    IF seqs = <<>> THEN <<>> ELSE seqs[1] \o Concat(Tail(seqs))

\* typeof
typeof(value) ==
    CASE value.kind = "string" -> "string"
      [] value.kind = "number" -> "number"
      [] value.kind = "undefined" -> "undefined"
      [] OTHER -> "object"

\* dot.dot (dot-object, brackets for array indices): the keys of the
\* flattened object in insertion order, for the tree value found at path.
\* A non-empty map or array is descended into; anything else is a leaf.
RECURSIVE dot(_, _)
dot(value, path) ==
    IF value.kind = "map" /\ value.entries # <<>>
    THEN Concat([k \in 1..Len(value.entries) |->
                    dot(value.entries[k].value,
                        IF path = <<>> THEN value.entries[k].key
                        ELSE path \o <<".">> \o value.entries[k].key)])
    ELSE IF value.kind = "array" /\ value.items # <<>>
    THEN Concat([k \in 1..Len(value.items) |->
                    dot(value.items[k],
                        path \o <<"[", Digits[k], "]">>)])
    ELSE <<path>>

\* lodash stringToPath: a.b[0].c is the steps a, b, 0, c
RECURSIVE stringToPath(_)
stringToPath(path) ==
    IF path = <<>> THEN <<>>
    ELSE IF path[1] = "." THEN stringToPath(Rest(path, 2))
    ELSE IF path[1] = "["
    THEN <<IndexSegment(DigitValue(path[2]))>> \o stringToPath(Rest(path, 4))
    ELSE LET stops == {k \in 1..Len(path) : path[k] \in {".", "["}}
             end == IF stops = {} THEN Len(path) + 1 ELSE Min(stops)
         IN  <<KeySegment(SubSeq(path, 1, end - 1))>>
                 \o stringToPath(Rest(path, end))

\* object[key] for one step, undefined when there is no such property
Property(value, segment) ==
    IF segment.isIndex
    THEN IF value.kind = "array" /\ segment.index < Len(value.items)
         THEN value.items[segment.index + 1]
         ELSE undefinedValue
    ELSE LET hits == {k \in 1..Len(value.entries) :
                         value.entries[k].key = segment.key}
         IN  IF value.kind = "map" /\ hits # {}
             THEN value.entries[Max(hits)].value
             ELSE undefinedValue

\* lodash baseGet: the steps of an array path followed from the object
RECURSIVE baseGet(_, _)
baseGet(object, segments) ==
    IF segments = <<>> THEN object
    ELSE IF object.kind = "undefined" THEN undefinedValue
    ELSE baseGet(Property(object, segments[1]), Tail(segments))

\* _.get(object, path) for a string path: the path is one key when the
\* object has a property of that very name, and is split into steps otherwise
get(object, path) ==
    IF Property(object, KeySegment(path)) # undefinedValue
    THEN Property(object, KeySegment(path))
    ELSE baseGet(object, stringToPath(path))

\* the array paths of all the nodes below value, each continuing prefix
RECURSIVE NodePaths(_, _)
NodePaths(value, prefix) ==
    LET children ==
            IF value.kind = "map"
            THEN {<<Append(prefix, KeySegment(value.entries[k].key)),
                    value.entries[k].value>> : k \in 1..Len(value.entries)}
            ELSE IF value.kind = "array"
            THEN {<<Append(prefix, IndexSegment(k - 1)), value.items[k]>> :
                     k \in 1..Len(value.items)}
            ELSE {}
    IN  {child[1] : child \in children}
            \cup UNION {NodePaths(child[2], child[1]) : child \in children}

\* an array path written as dot.dot writes it
RECURSIVE RenderPath(_)
RenderPath(segments) ==
    IF segments = <<>> THEN <<>>
    ELSE LET last == segments[Len(segments)]
             front == RenderPath(SubSeq(segments, 1, Len(segments) - 1))
         IN  IF last.isIndex THEN front \o <<"[", Digits[last.index + 1], "]">>
             ELSE IF front = <<>> THEN last.key
             ELSE front \o <<".">> \o last.key

\* utils.getArrayPath: the array path of the node of the object that the
\* string path names, found by matching the keys literally, so that a key
\* holding a "." is one step; the split path when no node is so named
getArrayPath(object, path) ==
    LET named == {segments \in NodePaths(object, <<>>) :
                     RenderPath(segments) = path}
    IN  IF named = {} THEN stringToPath(path)
        ELSE CHOOSE segments \in named : TRUE

\* utils.getArrayPrefix: the path without its last index and what follows
\* it, the path of the innermost array the path leads into
getArrayPrefix(path) ==
    SubSeq(path, 1, Max({k \in 1..Len(path) : path[k] = "["}) - 1)

\* an array is taken for plain although one element is not a string
IsPlainArrayAnyString(array) ==
    /\ array.kind = "array"
    /\ \E k \in 1..Len(array.items) : array.items[k].kind = "string"

\* no array is taken for plain
IsPlainArrayNever(array) == FALSE

\* isPlainArray after the forEach: no element is of a type other than
\* 'string' (forEach exists on arrays only)
IsPlainArray(array) ==
    /\ array.kind = "array"
    /\ \A k \in 1..Len(array.items) : array.items[k].kind = "string"

\* null kept as it is
NilKeepNull(value) == value

\* if (value === null) value = 'nil'
Nil(value) == IF value = null THEN StringValue("nil") ELSE value

\* the Parameter pushed to resultValues: new Parameter(valuePath) with its
\* value, type and schema assigned
ValueParameter(valuePath, value, type, renderInSchema) ==
    [name |-> valuePath, value |-> value, type |-> type,
     schema |-> renderInSchema]

\* the body of the for-in loop for one key of dottedFormatProperties
FlattenValuePath(valuesJSON_, resultValues_, valuePath) ==
    LET direct == get(valuesJSON_, valuePath)
        renderInSchema == direct # undefinedValue
        found == IF renderInSchema THEN direct
                 ELSE baseGet(valuesJSON_, getArrayPath(valuesJSON_, valuePath))
        insideArray == Len(Split(valuePath, "[")) > 1
        arrayPrefix == IF insideArray THEN getArrayPrefix(valuePath) ELSE <<>>
        array == IF insideArray
                 THEN baseGet(valuesJSON_, getArrayPath(valuesJSON_, arrayPrefix))
                 ELSE undefinedValue
        collapsed == insideArray /\ IsPlainArray(array)
        value == Nil(IF collapsed THEN array ELSE found)
        name == IF collapsed THEN arrayPrefix ELSE valuePath
        type == IF value.kind = "array" THEN "array" ELSE typeof(found)
    IN  IF \E k \in 1..Len(resultValues_) : resultValues_[k].name = name
        THEN resultValues_
        ELSE Append(resultValues_,
                    ValueParameter(name, value, type, renderInSchema))

(***************************************************************************)
(* The value trees flattened: under the top-level key a, directly, below   *)
(* a second key b, or below a key c.d that no path can name by its steps,  *)
(* a scalar, an empty collection, a map, an array of up to MaxItems        *)
(* scalars, or an array of up to MaxItems elements that are scalars,       *)
(* empty collections, maps or arrays.                                      *)
(***************************************************************************)
KeyA == <<"a">>
KeyB == <<"b">>
KeyC == <<"c">>
KeyCD == <<"c", ".", "d">>

Scalars == {StringValue("x"), StringValue("y"), NumberValue("1"), null}

ArraysOf(elements) ==
    {ArrayValue(items) :
        items \in UNION {[1..n -> elements] : n \in 1..MaxItems}}

Maps ==
    {MapValue(<<Entry(KeyB, v)>>) : v \in {StringValue("x"), null}}
        \cup {MapValue(<<Entry(KeyB, NumberValue("1")), Entry(KeyC, v)>>) :
                 v \in {StringValue("x"), null}}

Elements ==
    {StringValue("x"), NumberValue("1"), null, ArrayValue(<<>>), MapValue(<<>>),
     ArrayValue(<<StringValue("x"), StringValue("y")>>),
     ArrayValue(<<NumberValue("1"), StringValue("x")>>)}
        \cup Maps

Values ==
    Scalars \cup {ArrayValue(<<>>), MapValue(<<>>)} \cup Maps
        \cup ArraysOf(Scalars) \cup ArraysOf(Elements)

Trees ==
    {MapValue(<<Entry(KeyA, v)>>) : v \in Values}
        \cup {MapValue(<<Entry(KeyA, MapValue(<<Entry(KeyB, v)>>))>>) :
                 v \in Values}
        \cup {MapValue(<<Entry(KeyA, MapValue(<<Entry(KeyCD, v)>>))>>) :
                 v \in Values}

\* the state when the for-in loop is entered
InitValues ==
    /\ valuesJSON \in Trees
    /\ dottedFormatProperties = dot(valuesJSON, <<>>)
    /\ valueIndex = 0
    /\ resultValues = <<>>
    /\ pc = "flatten"
    /\ lines = <<>>
    /\ lineIndex = 0
    /\ sections = <<>>
    /\ parameters = <<>>
    /\ currentSection = 0
    /\ descriptionParsing = FALSE
    /\ pathStack = <<>>
    /\ indentStack = <<>>
    /\ pendingParam = <<>>

\* one iteration of the for-in loop
FlattenPath ==
    /\ pc = "flatten"
    /\ valueIndex < Len(dottedFormatProperties)
    /\ resultValues' = FlattenValuePath(valuesJSON, resultValues,
                                        dottedFormatProperties[valueIndex + 1])
    /\ valueIndex' = valueIndex + 1
    /\ UNCHANGED <<valuesJSON, dottedFormatProperties, pc, scanVars>>

\* return resultValues
ReturnValues ==
    /\ pc = "flatten"
    /\ valueIndex = Len(dottedFormatProperties)
    /\ pc' = "flattened"
    /\ UNCHANGED <<valueVars, scanVars>>

NextValues == FlattenPath \/ ReturnValues

SpecValues == InitValues /\ [][NextValues]_vars

(***************************************************************************)
(* Vocabulary of the properties: how a line of the file reads, and where   *)
(* the Parameters of the Metadata come from.                               *)
(***************************************************************************)
IsStructural(line) == parseYamlLine(line).isYamlKey

\* a param tag line with, and without, an explicit path
IsExplicitParam(line) ==
    paramMatch(line).matched /\ paramMatch(line).explicitPath # <<>>
IsPathlessParam(line) ==
    paramMatch(line).matched /\ paramMatch(line).explicitPath = <<>>

\* a param, skip or extra tag line without explicit path
IsPathlessTag(line) ==
    \/ IsPathlessParam(line)
    \/ skipMatch(line).matched /\ skipMatch(line).explicitPath = <<>>
    \/ extraMatch(line).matched /\ extraMatch(line).explicitPath = <<>>

\* a param, skip or extra tag line with an explicit path
IsExplicitTag(line) ==
    \/ IsExplicitParam(line)
    \/ skipMatch(line).matched /\ skipMatch(line).explicitPath # <<>>
    \/ extraMatch(line).matched /\ extraMatch(line).explicitPath # <<>>

\* the line ProcessLine is about to scan
CurrentLine == lines[lineIndex + 1]

\* the last element of a non-empty sequence
Last(seq) == seq[Len(seq)]

\* every Parameter the Metadata holds, in its list or in a Section's
AllParameters ==
    {parameters[k] : k \in 1..Len(parameters)}
        \cup UNION {{sections[s].parameters[k] :
                        k \in 1..Len(sections[s].parameters)} :
                    s \in 1..Len(sections)}

\* the keys a structural line of indent currentIndent leaves in scope: the
\* stack up to its topmost entry of smaller indent
KeysInScope(keys, indents, currentIndent) ==
    SubSeq(keys, 1,
           Max({0} \cup {k \in 1..Len(indents) : indents[k] < currentIndent}))

(***************************************************************************)
(* C1: a param tag line with an explicit path adds exactly one Parameter   *)
(* to Metadata.parameters while it is processed, named by the captured     *)
(* path verbatim (a.b for the line "## @param (a.b) d"), whatever the      *)
(* stacks, the current section and the pending slot hold.                  *)
(***************************************************************************)
C1_ExplicitPathVerbatim ==
    [][(pc = "scan" /\ lineIndex < Len(lines) /\ IsExplicitParam(CurrentLine))
         => /\ Len(parameters') = Len(parameters) + 1
            /\ SubSeq(parameters', 1, Len(parameters)) = parameters
            /\ Last(parameters').name = paramMatch(CurrentLine).explicitPath
            /\ CurrentLine = LineParamExplicit => Last(parameters').name = StrAB
            /\ pendingParam' = pendingParam]_vars

\* the explicit tag "## @param (a.b) d" was just scanned below key a, in a
\* section, with another Parameter pending
C1_Witness ==
    /\ lineIndex >= 1
    /\ lines[lineIndex] = LineParamExplicit
    /\ parameters # <<>>
    /\ Last(parameters).line = lineIndex
    /\ Last(parameters).name = StrAB
    /\ pathStack # <<>>
    /\ currentSection # 0
    /\ pendingParam # <<>>

(***************************************************************************)
(* C2: a param tag line without explicit path whose next line is           *)
(* structural produces, while it is processed, one Parameter named by the  *)
(* "."-join of the keys in scope at the tag line for the next line's       *)
(* indent (the stack popped while its top indent >= that indent) followed  *)
(* by the next line's key.                                                 *)
(***************************************************************************)
C2_LookaheadPath ==
    [][(/\ pc = "scan"
        /\ lineIndex + 1 < Len(lines)
        /\ IsPathlessParam(CurrentLine)
        /\ IsStructural(lines[lineIndex + 2]))
         => LET next == parseYamlLine(lines[lineIndex + 2])
            IN  /\ parameters' # <<>>
                /\ SubSeq(parameters', 1, Len(parameters)) = parameters
                /\ Len(parameters') = Len(parameters) + 1
                /\ Last(parameters').line = lineIndex + 1
                /\ Last(parameters').name =
                       Join(Append(KeysInScope(pathStack, indentStack, next.indent),
                                   next.key), ".")
                /\ pendingParam' = <<>>]_vars

\* "## @param [x, ,x] d" scanned below key a and followed by "  b: 1": a.b
C2_Witness ==
    /\ lineIndex >= 1
    /\ lineIndex < Len(lines)
    /\ lines[lineIndex] = LineParamAuto
    /\ lines[lineIndex + 1] = LineKeyB
    /\ parameters # <<>>
    /\ Last(parameters).line = lineIndex
    /\ Last(parameters).name = StrAB

(***************************************************************************)
(* C3 (as claimed): the file "## @param replicaCount Number of replicas",  *)
(* "replicaCount: 3" yields exactly one Parameter, named replicaCount,     *)
(* with description "Number of replicas".                                  *)
(***************************************************************************)
C3_ScenarioAsClaimed ==
    (pc = "done" /\ lines = ScenarioReplicaCount)
        => /\ Len(parameters) = 1
           /\ parameters[1].name = StrReplicaCount
           /\ parameters[1].description = StrNumberOfReplicas

(***************************************************************************)
(* C3 (amended): that file yields exactly one Parameter, named             *)
(* replicaCount from the key of its second line; its description is the    *)
(* whole text after the tag, "replicaCount Number of replicas", since a     *)
(* path is only read from a parenthesised group.                           *)
(***************************************************************************)
C3_ScenarioReplicaCount ==
    (pc = "done" /\ lines = ScenarioReplicaCount)
        => /\ Len(parameters) = 1
           /\ parameters[1].name = StrReplicaCount
           /\ parameters[1].description = StrReplicaCountNumberOfReplicas
           /\ parameters[1].modifiers = <<>>
           /\ sections = <<>>
           /\ pendingParam = <<>>

\* the scan of that file has returned, with a Parameter made on line 1
C3_Witness ==
    /\ pc = "done"
    /\ lines = ScenarioReplicaCount
    /\ parameters # <<>>
    /\ parameters[1].line = 1

(***************************************************************************)
(* C4 (as claimed): the file "## @section Common parameters",              *)
(* "## @param nameOverride [default: \"\"] Override name",                 *)
(* "nameOverride: \"\"" yields one Section "Common parameters" holding     *)
(* exactly one Parameter, named nameOverride, with the one modifier        *)
(* default: "".                                                            *)
(***************************************************************************)
C4_ScenarioAsClaimed ==
    (pc = "done" /\ lines = ScenarioNameOverride)
        => /\ Len(sections) = 1
           /\ sections[1].name = StrCommonParameters
           /\ Len(sections[1].parameters) = 1
           /\ sections[1].parameters[1].name = StrNameOverride
           /\ sections[1].parameters[1].modifiers = <<StrDefaultModifier>>

(***************************************************************************)
(* C4 (amended): that file yields one Section "Common parameters" holding  *)
(* exactly one Parameter, named nameOverride, with an empty modifier list: *)
(* the bracket group is only read right after the tag (and the optional    *)
(* path), so "[default: ...]" stays in the description, which is the       *)
(* whole text after the tag.                                               *)
(***************************************************************************)
C4_ScenarioNameOverride ==
    (pc = "done" /\ lines = ScenarioNameOverride)
        => /\ Len(sections) = 1
           /\ sections[1].name = StrCommonParameters
           /\ Len(sections[1].parameters) = 1
           /\ sections[1].parameters[1].name = StrNameOverride
           /\ sections[1].parameters[1].modifiers = <<>>
           /\ sections[1].parameters[1].description = StrNameOverrideTrailing
           /\ sections[1].parameters[1].section = StrCommonParameters
           /\ parameters = sections[1].parameters

\* the scan of that file has returned, with a Parameter made on line 2 in
\* its section
C4_Witness ==
    /\ pc = "done"
    /\ lines = ScenarioNameOverride
    /\ sections # <<>>
    /\ sections[1].parameters # <<>>
    /\ sections[1].parameters[1].line = 2

(***************************************************************************)
(* C5: a param, skip or extra tag line without explicit path that no       *)
(* structural line follows leaves no Parameter in the returned Metadata,   *)
(* neither in Metadata.parameters nor in a Section; the scan returns all   *)
(* the same.                                                               *)
(***************************************************************************)
NoStructuralAfter(i) ==
    \A j \in (i + 1)..Len(lines) : ~IsStructural(lines[j])

C5_UnresolvedTagDropped ==
    pc = "done"
        => \A i \in 1..Len(lines) :
               (IsPathlessTag(lines[i]) /\ NoStructuralAfter(i))
                   => \A p \in AllParameters : p.line # i

\* a scan returned with a tag still pending after a section and a resolved
\* Parameter
C5_Witness ==
    /\ pc = "done"
    /\ pendingParam # <<>>
    /\ IsPathlessTag(lines[pendingParam[1].line])
    /\ NoStructuralAfter(pendingParam[1].line)
    /\ parameters # <<>>
    /\ currentSection # 0

(***************************************************************************)
(* Where a tag without explicit path is resolved, and the nesting path of  *)
(* a structural line by its definition: its key, after the nesting path of *)
(* the nearest earlier structural line of strictly smaller indent.         *)
(***************************************************************************)
FirstStructuralAfter(i) ==
    Min({j \in (i + 1)..Len(lines) : IsStructural(lines[j])})

RECURSIVE NestingPath(_)
NestingPath(j) ==
    LET info == parseYamlLine(lines[j])
        parents == {k \in 1..(j - 1) :
                       /\ IsStructural(lines[k])
                       /\ parseYamlLine(lines[k]).indent < info.indent}
    IN  IF parents = {} THEN <<info.key>>
        ELSE Append(NestingPath(Max(parents)), info.key)

\* the tag of line i waits for a later structural line
IsDeferred(i) ==
    /\ IsPathlessTag(lines[i])
    /\ i < Len(lines)
    /\ ~IsStructural(lines[i + 1])
    /\ ~NoStructuralAfter(i)

\* the Parameters of Metadata.parameters made on line i
MadeOn(i) == {k \in 1..Len(parameters) : parameters[k].line = i}

(***************************************************************************)
(* C6 (as claimed): every param, skip or extra tag line without explicit   *)
(* path whose next line is not structural and which a structural line      *)
(* follows later yields a Parameter in Metadata.parameters, named by the   *)
(* "."-join of the key stack after the first such structural line,         *)
(* whatever lines lie in between, other tag lines included.                *)
(***************************************************************************)
C6_DeferredAsClaimed ==
    pc = "done"
        => \A i \in 1..Len(lines) :
               IsDeferred(i)
                   => \E k \in MadeOn(i) :
                          parameters[k].name =
                              Join(NestingPath(FirstStructuralAfter(i)), ".")

(***************************************************************************)
(* C6 (amended): such a tag line yields exactly one Parameter in           *)
(* Metadata.parameters, named by the "."-join of the key stack after the   *)
(* first later structural line, provided no other param, skip or extra tag *)
(* line without explicit path lies between the two: the pending slot holds *)
(* one Parameter, and a later tag without path replaces it.                *)
(***************************************************************************)
C6_DeferredResolution ==
    pc = "done"
        => \A i \in 1..Len(lines) :
               (/\ IsDeferred(i)
                /\ \A m \in (i + 1)..(FirstStructuralAfter(i) - 1) :
                       ~IsPathlessTag(lines[m]))
                   => /\ Cardinality(MadeOn(i)) = 1
                      /\ \A k \in MadeOn(i) :
                             parameters[k].name =
                                 Join(NestingPath(FirstStructuralAfter(i)), ".")

\* a tag without path, then a tag with an explicit path, then the
\* structural line that resolves the first
C6_Witness ==
    /\ pc = "done"
    /\ \E i \in 1..(Len(lines) - 2) :
           /\ IsPathlessTag(lines[i])
           /\ IsExplicitTag(lines[i + 1])
           /\ IsStructural(lines[i + 2])
           /\ MadeOn(i) # {}
           /\ Len(NestingPath(i + 2)) > 1

(***************************************************************************)
(* The section a Parameter belongs to.                                     *)
(***************************************************************************)
\* the number of section tag lines before line i: the index in
\* Metadata.sections of the section current when line i is scanned, 0 for none
SectionsBefore(i) ==
    Cardinality({m \in 1..(i - 1) : sectionMatch(lines[m]).matched})

\* the line on which the Parameter of tag line i is added to the Metadata
AttachLine(i) ==
    IF IsExplicitTag(lines[i]) \/ (i < Len(lines) /\ IsStructural(lines[i + 1]))
    THEN i
    ELSE FirstStructuralAfter(i)

\* Parameter p is held by section s (0: by none) and by no other, and its
\* section field names that section
AttachedTo(p, s) ==
    /\ \A t \in 1..Len(sections) :
           (\E k \in 1..Len(sections[t].parameters) :
                sections[t].parameters[k].line = p.line) <=> t = s
    /\ s # 0 => \E k \in 1..Len(sections[s].parameters) :
                    sections[s].parameters[k] = p
    /\ p.section = IF s = 0 THEN undefined ELSE sections[s].name

(***************************************************************************)
(* C7 (as claimed): every Parameter of the Metadata is attached to the     *)
(* section that was current when its tag line was scanned (to none when no *)
(* section tag precedes that line), also when its path is resolved later.  *)
(***************************************************************************)
C7_SectionAsClaimed ==
    pc = "done"
        => \A k \in 1..Len(parameters) :
               AttachedTo(parameters[k], SectionsBefore(parameters[k].line))

(***************************************************************************)
(* C7 (amended): every Parameter of the Metadata is attached to the        *)
(* section that is current when it is added: for a tag with an explicit    *)
(* path or resolved by the lookahead, the section of the last section tag  *)
(* before the tag line; for a tag resolved on a later structural line, the *)
(* section of the last section tag before that structural line.            *)
(***************************************************************************)
C7_SectionWhenAdded ==
    pc = "done"
        => \A k \in 1..Len(parameters) :
               AttachedTo(parameters[k],
                          SectionsBefore(AttachLine(parameters[k].line)))

\* a Parameter tagged in the first section and resolved in the second
C7_Witness ==
    /\ pc = "done"
    /\ \E k \in 1..Len(parameters) :
           /\ SectionsBefore(parameters[k].line) = 1
           /\ SectionsBefore(AttachLine(parameters[k].line)) = 2

(***************************************************************************)
(* C8 (as claimed): no Parameter of the returned Metadata carries a type   *)
(* or a value.                                                             *)
(***************************************************************************)
C8_NoTypeNoValueAsClaimed ==
    pc = "done"
        => \A p \in AllParameters : p.type = undefined /\ p.value = undefined

(***************************************************************************)
(* C8 (amended): no Parameter of the returned Metadata carries a type; a   *)
(* Parameter of a param or skip tag carries no value, and a Parameter of   *)
(* an extra tag carries the empty string as its value, with an explicit    *)
(* and with an auto-detected path.                                         *)
(***************************************************************************)
C8_ValueOnlyOnExtra ==
    pc = "done"
        => \A p \in AllParameters :
               /\ p.type = undefined
               /\ p.value = IF extraMatch(lines[p.line]).matched
                            THEN <<>> ELSE undefined

\* a returned Metadata with an extra Parameter of explicit path, one of
\* auto-detected path, and a Parameter that is not extra
C8_Witness ==
    /\ pc = "done"
    /\ \E p, q, r \in AllParameters :
           /\ lines[p.line] = LineExtraExplicit
           /\ lines[q.line] = LineExtraAuto
           /\ ~extraMatch(lines[r.line]).matched

(***************************************************************************)
(* C9: no two Parameters of the returned Metadata.parameters have the same *)
(* name.                                                                   *)
(***************************************************************************)
C9_NamesUnique ==
    pc = "done"
        => \A j, k \in 1..Len(parameters) :
               j # k => parameters[j].name # parameters[k].name

(***************************************************************************)
(* C10: the modifiers of a Parameter of a param or extra tag are the       *)
(* comma-separated tokens of the bracketed list in their order, without    *)
(* the duplicates and without the tokens that are empty once trimmed.      *)
(***************************************************************************)
IsNonEmpty(token) == token # <<>>

RECURSIVE WithoutDuplicates(_)
WithoutDuplicates(seq) ==
    IF seq = <<>> THEN <<>>
    ELSE LET front == WithoutDuplicates(SubSeq(seq, 1, Len(seq) - 1))
         IN  IF \E k \in 1..Len(front) : front[k] = Last(seq)
             THEN front
             ELSE Append(front, Last(seq))

ClaimedModifiers(text) ==
    LET tokens == Split(text, ",")
    IN  WithoutDuplicates(
            SelectSeq([k \in 1..Len(tokens) |-> Trim(tokens[k])], IsNonEmpty))

C10_ModifiersAsClaimed ==
    pc = "done"
        => \A p \in AllParameters :
               LET line == lines[p.line]
               IN  /\ paramMatch(line).matched
                       => p.modifiers = ClaimedModifiers(paramMatch(line).modifiers)
                   /\ extraMatch(line).matched
                       => p.modifiers = ClaimedModifiers(extraMatch(line).modifiers)

(***************************************************************************)
(* C11: after every processed line each Parameter held by a Section is     *)
(* also held by Metadata.parameters, and the Parameters of one Section     *)
(* appear in Metadata.parameters in the order of that Section's list.      *)
(***************************************************************************)
\* seq is sub, with further elements before, between or after: a strictly
\* increasing map of the positions of sub into those of seq
IsSubsequence(sub, seq) ==
    \E f \in [1..Len(sub) -> 1..Len(seq)] :
        /\ \A k \in 1..Len(sub) : seq[f[k]] = sub[k]
        /\ \A j, k \in 1..Len(sub) : j < k => f[j] < f[k]

C11_SectionParametersInMetadata ==
    \A s \in 1..Len(sections) :
        IsSubsequence(sections[s].parameters, parameters)

\* a section holding two Parameters, after a Parameter of no section
C11_Witness ==
    /\ Len(sections) = 1
    /\ Len(sections[1].parameters) = 2
    /\ Len(parameters) = 3
    /\ parameters[1].section = undefined

\* the tag kinds of the description claims, read off a line of the file
IsSectionLine(i) == sectionMatch(lines[i]).matched
IsDescriptionStartLine(i) == descriptionStartMatch(lines[i]).matched
IsDescriptionEndLine(i) == descriptionEndMatch(lines[i]).matched

\* the line whose section tag created the s-th Section
SectionLineOf(s) ==
    CHOOSE i \in 1..Len(lines) :
        /\ IsSectionLine(i)
        /\ Cardinality({j \in 1..i : IsSectionLine(j)}) = s

\* the description of the s-th Section before the step (empty when the
\* step creates the Section)
DescriptionBefore(s) ==
    IF s <= Len(sections) THEN sections[s].description ELSE <<>>

(***************************************************************************)
(* C12: a line is added to a Section's description only when a             *)
(* description-start tag was scanned after that Section's own section tag  *)
(* (so while it was current) with no description-end tag since; a Section  *)
(* just created by a section tag therefore has an empty description.       *)
(***************************************************************************)
C12_DescriptionWithinOwnTags ==
    [][\A s \in 1..Len(sections') :
          sections'[s].description # DescriptionBefore(s)
          => \E j \in (SectionLineOf(s) + 1)..lineIndex' :
                /\ IsDescriptionStartLine(j)
                /\ \A k \in (j + 1)..lineIndex' : ~IsDescriptionEndLine(k)]_vars

\* a line in the comment format, with or without a tag
IsCommentLine(i) == descriptionContentMatch(lines[i]).matched

\* the step leaves the description of every Section but s as it was
OtherDescriptionsKept(s) ==
    \A r \in 1..Len(sections') :
        r # s => sections'[r].description = DescriptionBefore(r)

\* the step adds exactly the lines added to the description of the Section
\* current after it, and nothing to any other description
DescriptionGrowsBy(added) ==
    /\ currentSection' # 0
    /\ sections'[currentSection'].description
         = DescriptionBefore(currentSection') \o added
    /\ OtherDescriptionsKept(currentSection')

(***************************************************************************)
(* C18: with a current section, a description-start line scanned while not *)
(* capturing turns capture on and appends its trailing text once, nothing  *)
(* when the text is empty; a description-end line scanned while capturing  *)
(* turns capture off and appends nothing; every other comment line scanned *)
(* while capturing appends exactly one description line.  With no current  *)
(* section, a start, content or end line changes neither the capture flag  *)
(* nor any description.                                                    *)
(***************************************************************************)
C18_DescriptionCapture ==
    [][lineIndex' = lineIndex + 1 =>
        LET i == lineIndex'
            text == descriptionStartMatch(lines[i]).text
        IN  /\ (currentSection # 0 /\ ~descriptionParsing
                  /\ IsDescriptionStartLine(i))
               => /\ descriptionParsing'
                  /\ DescriptionGrowsBy(IF text = <<>> THEN <<>> ELSE <<text>>)
            /\ (currentSection # 0 /\ descriptionParsing
                  /\ IsDescriptionEndLine(i))
               => /\ ~descriptionParsing'
                  /\ OtherDescriptionsKept(0)
            /\ (currentSection # 0 /\ descriptionParsing
                  /\ IsCommentLine(i) /\ ~IsDescriptionEndLine(i))
               => \E added \in {<<descriptionContentMatch(lines[i]).text>>} :
                     DescriptionGrowsBy(added)
            /\ (currentSection = 0 /\ IsCommentLine(i) /\ ~IsSectionLine(i))
               => /\ descriptionParsing' = descriptionParsing
                  /\ OtherDescriptionsKept(0)]_vars

\* a start tag with text, a content line and an end tag have been scanned
\* under one section
C18_Witness ==
    /\ lineIndex = 4
    /\ IsDescriptionStartLine(2)
    /\ IsDescriptionEndLine(4)
    /\ currentSection = 1
    /\ ~descriptionParsing
    /\ Len(sections[1].description) = 2

\* the places (section, position) where a Section holds a Parameter made
\* on line i
HeldBySections(i) ==
    {place \in (1..Len(sections)) \X (1..MaxLines + 1) :
        /\ place[2] <= Len(sections[place[1]].parameters)
        /\ sections[place[1]].parameters[place[2]].line = i}

(***************************************************************************)
(* C19: each param, skip or extra tag line contributes at most one entry   *)
(* to Metadata.parameters and at most one entry to the parameters of all   *)
(* Sections together (so a tag resolved by the lookahead is not added      *)
(* again by the structural line after it), and the pending slot is empty   *)
(* after a structural line has been processed.                             *)
(***************************************************************************)
C19_AtMostOneEntryPerTag ==
    /\ \A i \in 1..Len(lines) :
          /\ Cardinality(MadeOn(i)) <= 1
          /\ Cardinality(HeldBySections(i)) <= 1
    /\ (lineIndex >= 1 /\ IsStructural(lines[lineIndex])) => pendingParam = <<>>

\* the structural line after a pathless tag resolved by the lookahead has
\* been processed, in a section, and the tag has its one entry in each list
C19_Witness ==
    /\ lineIndex >= 3
    /\ IsSectionLine(lineIndex - 2)
    /\ IsPathlessTag(lines[lineIndex - 1])
    /\ IsStructural(lines[lineIndex])
    /\ Cardinality(MadeOn(lineIndex - 1)) = 1
    /\ Cardinality(HeldBySections(lineIndex - 1)) = 1

(***************************************************************************)
(* C20: after every processed line every Parameter held by                 *)
(* Metadata.parameters or by a Section has a non-empty name: the           *)
(* placeholder of a pathless tag is added only once it is named by the     *)
(* "."-join of a non-empty key stack.                                      *)
(***************************************************************************)
C20_NamesNonEmpty ==
    \A p \in AllParameters : p.name # <<>>

\* a pathless tag resolved late, on a structural line that is not the next
\* line, is held under the joined key stack
C20_Witness ==
    /\ lineIndex >= 3
    /\ IsPathlessTag(lines[lineIndex - 2])
    /\ ~IsStructural(lines[lineIndex - 1])
    /\ ~IsPathlessTag(lines[lineIndex - 1])
    /\ IsStructural(lines[lineIndex])
    /\ \E k \in MadeOn(lineIndex - 2) :
          /\ parameters[k].name = buildCurrentPath(pathStack)
          /\ pathStack # <<>>

\* two stacks of equal length, the indents strictly increasing from the
\* bottom to the top
WellFormedStacks(keys, indents) ==
    /\ Len(keys) = Len(indents)
    /\ \A j, k \in 1..Len(indents) : j < k => indents[j] < indents[k]

\* the temporary copies made by the lookahead of the tag line just
\* processed, as updatePathStack leaves them (the tag line itself does not
\* touch the real stacks)
LookAheadCopies ==
    LET nextYamlInfo == parseYamlLine(lines[lineIndex + 1])
    IN  updatePathStack(pathStack, indentStack,
                        nextYamlInfo.indent, nextYamlInfo.key)

\* the line just processed was a pathless tag and its lookahead saw a
\* structural line
LookAheadRan ==
    /\ lineIndex >= 1
    /\ lineIndex < Len(lines)
    /\ IsPathlessTag(lines[lineIndex])
    /\ IsStructural(lines[lineIndex + 1])

(***************************************************************************)
(* C16: after every processed line indentStack and pathStack have equal    *)
(* length and the indents are strictly increasing from bottom to top; the  *)
(* same holds for the temporary copies the lookahead works on.             *)
(***************************************************************************)
C16_StacksWellFormed ==
    /\ WellFormedStacks(pathStack, indentStack)
    /\ LookAheadRan
       => WellFormedStacks(LookAheadCopies.pathStack,
                           LookAheadCopies.indentStack)

\* a lookahead whose structural line pops both levels of a two-level stack
C16_Witness ==
    /\ LookAheadRan
    /\ Len(indentStack) = 2
    /\ Len(LookAheadCopies.indentStack) = 1

(***************************************************************************)
(* C17: after a structural line L has been processed, pathStack is the     *)
(* nesting path of L: the key of L preceded by the nesting path of the     *)
(* nearest earlier structural line of strictly smaller indent (empty when  *)
(* there is none), whatever the indents and whether or not the lines have  *)
(* an inline value.                                                        *)
(***************************************************************************)
C17_PathStackIsNestingPath ==
    (lineIndex >= 1 /\ IsStructural(lines[lineIndex]))
    => pathStack = NestingPath(lineIndex)

\* keys at the indents 0, 2, 4 and then 1: the last one pops two levels
C17_Witness ==
    /\ lineIndex = 4
    /\ lines = <<LineKeyA, LineKeyB, LineKeyC, LineKeyD>>
    /\ Len(pathStack) = 2

(***************************************************************************)
(* Vocabulary of the flattening properties: the arrays of the value tree   *)
(* and the Parameters of the result, by name.                              *)
(***************************************************************************)
\* the array paths of the arrays of the value tree
ArrayNodes ==
    {segments \in NodePaths(valuesJSON, <<>>) :
        baseGet(valuesJSON, segments).kind = "array"}

\* every element of the array is a string
AllStrings(array) ==
    \A k \in 1..Len(array.items) : array.items[k].kind = "string"

\* s begins with p
StartsWith(s, p) == Len(s) >= Len(p) /\ SubSeq(s, 1, Len(p)) = p

\* the Parameters of the result named path, and those whose name begins
\* with path
Named(path) ==
    {k \in 1..Len(resultValues) : resultValues[k].name = path}
NamedUnder(path) ==
    {k \in 1..Len(resultValues) : StartsWith(resultValues[k].name, path)}

(***************************************************************************)
(* C13: for every non-empty array of the value tree whose elements are all *)
(* strings the result holds exactly one Parameter named by the path of the *)
(* array without index, of type 'array' and with the whole array, in       *)
(* order, as its value, and no Parameter named by an index of that array.  *)
(***************************************************************************)
C13_PlainArrayCollapsed ==
    pc = "flattened" =>
        \A segments \in ArrayNodes :
            LET array == baseGet(valuesJSON, segments)
                prefix == RenderPath(segments)
            IN  (array.items # <<>> /\ AllStrings(array))
                => /\ Cardinality(Named(prefix)) = 1
                   /\ \A k \in Named(prefix) :
                         /\ resultValues[k].type = "array"
                         /\ resultValues[k].value = array
                   /\ NamedUnder(prefix \o <<"[">>) = {}

\* an array of strings that is itself an element of an array has been
\* flattened to its one Parameter
C13_Witness ==
    /\ pc = "flattened"
    /\ \E segments \in ArrayNodes :
          /\ segments[Len(segments)].isIndex
          /\ Len(baseGet(valuesJSON, segments).items) = 2
          /\ AllStrings(baseGet(valuesJSON, segments))
          /\ Named(RenderPath(segments)) # {}

(***************************************************************************)
(* C14 (as claimed): for every array of the value tree with an element     *)
(* that is not a string, the number of Parameters of the result whose name *)
(* begins with the path of the array followed by "[" is the length of the  *)
(* array, and no Parameter is named by the bare path of the array.         *)
(***************************************************************************)
C14_AsClaimed ==
    pc = "flattened" =>
        \A segments \in ArrayNodes :
            LET array == baseGet(valuesJSON, segments)
                prefix == RenderPath(segments)
            IN  ~AllStrings(array)
                => /\ Cardinality(NamedUnder(prefix \o <<"[">>))
                        = Len(array.items)
                   /\ Named(prefix) = {}

\* an element flattened to one Parameter named by its index: a scalar, a
\* null, an empty collection or an array of strings
IsOneParameter(value) ==
    \/ value.kind \notin {"map", "array"}
    \/ value.kind = "map" /\ value.entries = <<>>
    \/ value.kind = "array" /\ AllStrings(value)

(***************************************************************************)
(* C14: for every array of the value tree with an element that is not a    *)
(* string, no Parameter is named by the bare path of the array, and every  *)
(* index of the array has at least one Parameter whose name begins with    *)
(* the indexed path: exactly one, named by the indexed path itself, when   *)
(* the element is a scalar, a null, an empty collection or an array of     *)
(* strings; otherwise none named by the indexed path itself and at most    *)
(* one per leaf below it.                                                  *)
(***************************************************************************)
C14_ExpandedPerIndex ==
    pc = "flattened" =>
        \A segments \in ArrayNodes :
            LET array == baseGet(valuesJSON, segments)
                prefix == RenderPath(segments)
            IN  ~AllStrings(array)
                => /\ Named(prefix) = {}
                   /\ \A i \in 1..Len(array.items) :
                         LET indexed == prefix \o <<"[", Digits[i], "]">>
                             leaves == dot(array.items[i], indexed)
                         IN  /\ NamedUnder(indexed) # {}
                             /\ IsOneParameter(array.items[i])
                                => /\ Cardinality(Named(indexed)) = 1
                                   /\ NamedUnder(indexed) = Named(indexed)
                             /\ ~IsOneParameter(array.items[i])
                                => /\ Named(indexed) = {}
                                   /\ Cardinality(NamedUnder(indexed))
                                        <= Len(leaves)

\* an array whose one element is a map of two leaves has been flattened to
\* two Parameters
C14_Witness ==
    /\ pc = "flattened"
    /\ \E segments \in ArrayNodes :
          LET array == baseGet(valuesJSON, segments)
          IN  /\ Len(array.items) = 1
              /\ array.items[1].kind = "map"
              /\ Cardinality(NamedUnder(RenderPath(segments) \o <<"[">>)) = 2

(***************************************************************************)
(* C15: every null of the value tree, at the top level, in a map or as an  *)
(* element of an array, has a Parameter of its path in the result whose    *)
(* value is the string 'nil', and no Parameter of the result has the value *)
(* null or undefined.                                                      *)
(***************************************************************************)
C15_NullIsNil ==
    pc = "flattened" =>
        /\ \A segments \in NodePaths(valuesJSON, <<>>) :
              baseGet(valuesJSON, segments) = null
              => /\ Named(RenderPath(segments)) # {}
                 /\ \A k \in Named(RenderPath(segments)) :
                       resultValues[k].value = StringValue("nil")
        /\ \A k \in 1..Len(resultValues) :
              resultValues[k].value \notin {null, undefinedValue}

\* a null that is an element of an array below a key no path can name by
\* its steps has been flattened
C15_Witness ==
    /\ pc = "flattened"
    /\ \E segments \in NodePaths(valuesJSON, <<>>) :
          /\ Len(segments) = 3
          /\ segments[2].key = KeyCD
          /\ segments[3].isIndex
          /\ baseGet(valuesJSON, segments) = null
          /\ \E k \in Named(RenderPath(segments)) : ~resultValues[k].schema

====
